---- MODULE Spec2Model ----
(***************************************************************************)
(* Model of the ELF ident decoder (src/src/elf_ident.rs) and the 32-bit    *)
(* ELF header decoder (src/src/elf_header_32.rs).                          *)
(*                                                                         *)
(* A byte is a natural number in 0..255, a buffer a sequence of bytes      *)
(* (TLA+ index i+1 is the Rust index i).  Option<T> is a record with a     *)
(* `some` flag.  A File is its content `file` and its cursor `pos`.        *)
(***************************************************************************)
EXTENDS Integers, Sequences, FiniteSets, TLC

VARIABLES
    file,     \* content of the byte source handed to the read functions
    pos,      \* cursor of the byte source
    op,       \* function the caller invoked: "none", "read_elf_ident", "read_elf_header"
    pc,       \* position inside the running call
    buf,      \* the local read buffer (16 or 54 bytes)
    ident,    \* Option<ELFIdent>: what the read_elf_ident step produced
    ret,      \* Option<..>: the value returned to the caller
    cause,    \* history: which return statement ended the call
    fault,    \* history: the device reported an I/O error during the call
    start,    \* history: cursor position at the call's entry
    trace,    \* history: steps executed by the call, in order, with their success
    prev,     \* history: outcome of the previous call on the same, unchanged source
    seen,     \* history: failure kinds that reached the caller as None so far
    arg,      \* inputs of the pure decode functions (sequence of buffers)
    res       \* results of the pure decode functions, in order of application

vars == <<file, pos, op, pc, buf, ident, ret, cause, fault, start, trace, prev,
          seen, arg, res>>

readVars == <<file, pos, op, pc, buf, ident, ret, cause, fault, start, trace,
              prev, seen>>

pureVars == <<arg, res>>

(***************************************************************************)
(* Constants of elf_ident.rs                                               *)
(***************************************************************************)
EI_CLASS_32 == 1
EI_CLASS_64 == 2
EI_DATA_LITTLE == 1
EI_DATA_BIG == 2
EI_OSABI_SYSTEM_V == 0
EI_OSABI_HP_UX == 1
EI_OSABI_NETBSD == 2
EI_OSABI_LINUX == 3
EI_OSABI_GNU_HURD == 4
EI_OSABI_SOLARIS == 6
EI_OSABI_AIX == 7
EI_OSABI_IRIX == 8
EI_OSABI_FREEBSD == 9
EI_OSABI_TRU64 == 10
EI_OSABI_NOVELL_MODESTO == 11
EI_OSABI_OPENBSD == 12
EI_OSABI_OPENVMS == 13
EI_OSABI_NONSTOP_KERNEL == 14
EI_OSABI_AROS == 15
EI_OSABI_FENIX_OS == 16
EI_OSABI_CLOUDABI == 17

IDENT_SIZE == 16
HEADER_SIZE == 54

(***************************************************************************)
(* Option<T>                                                               *)
(***************************************************************************)
None == [some |-> FALSE]

Some(v) == [some |-> TRUE, val |-> v]

\* buf[lo..hi] of Rust: bytes lo .. hi-1
Slice(b, lo, hi) == SubSeq(b, lo + 1, hi)

(***************************************************************************)
(* elf_ident.rs: parse_elf_ident, check_elf_ident                          *)
(***************************************************************************)
parse_elf_ident(b) ==
    [ei_mag0 |-> b[1], ei_mag1 |-> b[2], ei_mag2 |-> b[3], ei_mag3 |-> b[4],
     ei_class |-> b[5], ei_data |-> b[6], ei_version |-> b[7],
     ei_osabi |-> b[8], ei_abiversion |-> b[9],
     ei_padding |-> [i \in 1..7 |-> 0]]

check_elf_ident_no_osabi(id) ==
    ~ (\/ id.ei_mag0 # 127 \/ id.ei_mag1 # 69
       \/ id.ei_mag2 # 76 \/ id.ei_mag3 # 70
       \/ (id.ei_class # EI_CLASS_32 /\ id.ei_class # EI_CLASS_64)
       \/ (id.ei_data # EI_DATA_LITTLE /\ id.ei_data # EI_DATA_BIG))

check_elf_ident_no_magic0(id) ==
    ~ (\/ id.ei_mag1 # 69
       \/ id.ei_mag2 # 76 \/ id.ei_mag3 # 70
       \/ (id.ei_class # EI_CLASS_32 /\ id.ei_class # EI_CLASS_64)
       \/ (id.ei_data # EI_DATA_LITTLE /\ id.ei_data # EI_DATA_BIG)
       \/ id.ei_osabi \notin (0..4) \cup (6..17))

check_elf_ident_only_32(id) ==
    ~ (\/ id.ei_mag0 # 127 \/ id.ei_mag1 # 69
       \/ id.ei_mag2 # 76 \/ id.ei_mag3 # 70
       \/ id.ei_class # EI_CLASS_32
       \/ (id.ei_data # EI_DATA_LITTLE /\ id.ei_data # EI_DATA_BIG)
       \/ id.ei_osabi \notin (0..4) \cup (6..17))

check_elf_ident(id) ==
    IF \/ id.ei_mag0 # 127 \/ id.ei_mag1 # 69
       \/ id.ei_mag2 # 76 \/ id.ei_mag3 # 70
       \/ (id.ei_class # EI_CLASS_32 /\ id.ei_class # EI_CLASS_64)
       \/ (id.ei_data # EI_DATA_LITTLE /\ id.ei_data # EI_DATA_BIG)
       \/ (/\ id.ei_osabi # EI_OSABI_SYSTEM_V
           /\ id.ei_osabi # EI_OSABI_HP_UX /\ id.ei_osabi # EI_OSABI_NETBSD
           /\ id.ei_osabi # EI_OSABI_LINUX
           /\ id.ei_osabi # EI_OSABI_GNU_HURD
           /\ id.ei_osabi # EI_OSABI_SOLARIS /\ id.ei_osabi # EI_OSABI_AIX
           /\ id.ei_osabi # EI_OSABI_IRIX /\ id.ei_osabi # EI_OSABI_FREEBSD
           /\ id.ei_osabi # EI_OSABI_TRU64
           /\ id.ei_osabi # EI_OSABI_NOVELL_MODESTO
           /\ id.ei_osabi # EI_OSABI_OPENBSD
           /\ id.ei_osabi # EI_OSABI_OPENVMS
           /\ id.ei_osabi # EI_OSABI_NONSTOP_KERNEL
           /\ id.ei_osabi # EI_OSABI_AROS
           /\ id.ei_osabi # EI_OSABI_FENIX_OS
           /\ id.ei_osabi # EI_OSABI_CLOUDABI)
    THEN FALSE
    ELSE TRUE

(***************************************************************************)
(* byteorder: LittleEndian / BigEndian read_u16, read_u32 as used by       *)
(* parse_elf_header                                                        *)
(***************************************************************************)
LittleEndian_read_u16(b) == b[1] + 256 * b[2]

\* A u32 can exceed the model checker's integer range: it is held as its two
\* 16-bit halves, value = 65536 * hi + lo with hi, lo in 0..65535.
LittleEndian_read_u32(b) ==
    [hi |-> b[3] + 256 * b[4], lo |-> b[1] + 256 * b[2]]

BigEndian_read_u16_as_little(b) == b[1] + 256 * b[2]

BigEndian_read_u16(b) == 256 * b[1] + b[2]

BigEndian_read_u32(b) ==
    [hi |-> 256 * b[1] + b[2], lo |-> 256 * b[3] + b[4]]

(***************************************************************************)
(* elf_header_32.rs: parse_elf_header                                      *)
(***************************************************************************)
Zero32 == [hi |-> 0, lo |-> 0]

ZeroFields ==
    [e_type |-> 0, e_machine |-> 0, e_version |-> Zero32, e_entry |-> Zero32,
     e_phoff |-> Zero32, e_shoff |-> Zero32, e_flags |-> Zero32, e_shsize |-> 0,
     e_phentsize |-> 0, e_phnum |-> 0, e_shentsize |-> 0, e_shnum |-> 0,
     e_shstrndx |-> 0]

LittleFields(b) ==
    [e_type |-> LittleEndian_read_u16(Slice(b, 16, 18)),
     e_machine |-> LittleEndian_read_u16(Slice(b, 18, 20)),
     e_version |-> LittleEndian_read_u32(Slice(b, 20, 24)),
     e_entry |-> LittleEndian_read_u32(Slice(b, 24, 28)),
     e_phoff |-> LittleEndian_read_u32(Slice(b, 28, 32)),
     e_shoff |-> LittleEndian_read_u32(Slice(b, 32, 36)),
     e_flags |-> LittleEndian_read_u32(Slice(b, 36, 40)),
     e_shsize |-> LittleEndian_read_u16(Slice(b, 40, 42)),
     e_phentsize |-> LittleEndian_read_u16(Slice(b, 42, 44)),
     e_phnum |-> LittleEndian_read_u16(Slice(b, 44, 46)),
     e_shentsize |-> LittleEndian_read_u16(Slice(b, 46, 48)),
     e_shnum |-> LittleEndian_read_u16(Slice(b, 48, 50)),
     e_shstrndx |-> LittleEndian_read_u16(Slice(b, 50, 52))]

BigFields(b) ==
    [e_type |-> BigEndian_read_u16(Slice(b, 16, 18)),
     e_machine |-> BigEndian_read_u16(Slice(b, 18, 20)),
     e_version |-> BigEndian_read_u32(Slice(b, 20, 24)),
     e_entry |-> BigEndian_read_u32(Slice(b, 24, 28)),
     e_phoff |-> BigEndian_read_u32(Slice(b, 28, 32)),
     e_shoff |-> BigEndian_read_u32(Slice(b, 32, 36)),
     e_flags |-> BigEndian_read_u32(Slice(b, 36, 40)),
     e_shsize |-> BigEndian_read_u16(Slice(b, 40, 42)),
     e_phentsize |-> BigEndian_read_u16(Slice(b, 42, 44)),
     e_phnum |-> BigEndian_read_u16(Slice(b, 44, 46)),
     e_shentsize |-> BigEndian_read_u16(Slice(b, 46, 48)),
     e_shnum |-> BigEndian_read_u16(Slice(b, 48, 50)),
     e_shstrndx |-> BigEndian_read_u16(Slice(b, 50, 52))]

parse_elf_header_ident_misplaced(b) ==
    LET e_ident == parse_elf_ident(Slice(b, 16, 32))
        fields == IF e_ident.ei_data = EI_DATA_LITTLE THEN LittleFields(b)
                  ELSE IF e_ident.ei_data = EI_DATA_BIG THEN BigFields(b)
                  ELSE ZeroFields
    IN  [k \in {"e_ident"} \cup DOMAIN fields |->
            IF k = "e_ident" THEN e_ident ELSE fields[k]]

parse_elf_header(b) ==
    LET e_ident == parse_elf_ident(Slice(b, 0, 16))
        fields == IF e_ident.ei_data = EI_DATA_LITTLE THEN LittleFields(b)
                  ELSE IF e_ident.ei_data = EI_DATA_BIG THEN BigFields(b)
                  ELSE ZeroFields
    IN  [k \in {"e_ident"} \cup DOMAIN fields |->
            IF k = "e_ident" THEN e_ident ELSE fields[k]]

(***************************************************************************)
(* Inputs of the pure decode functions                                     *)
(***************************************************************************)
MaxClass == 3
MaxData == 3
MaxVersion == 1
MaxOsabi == 18
MaxAbiVersion == 1
MaxPad == 1

Mag0 == {127, 126}
Mag1 == {69, 101}
Mag2 == {76, 0}
Mag3 == {70, 71}

\* padding bytes p, 2p, .. 7p: all zero for p = 0, pairwise distinct otherwise
Padding(p) == [i \in 1..7 |-> (p * i) % 256]

MkIdent(m0, m1, m2, m3, c, d, v, o, a, p) ==
    <<m0, m1, m2, m3, c, d, v, o, a>> \o Padding(p)

IdentInputs ==
    {MkIdent(m0, m1, m2, m3, c, d, v, o, a, p) :
        m0 \in Mag0, m1 \in Mag1, m2 \in Mag2, m3 \in Mag3,
        c \in 0..MaxClass, d \in 0..MaxData, v \in 0..MaxVersion,
        o \in 0..MaxOsabi, a \in 0..MaxAbiVersion, p \in 0..MaxPad}

\* the 13 integer fields of the header: name, offset, size
Fields ==
    << <<"e_type", 16, 2>>, <<"e_machine", 18, 2>>, <<"e_version", 20, 4>>,
       <<"e_entry", 24, 4>>, <<"e_phoff", 28, 4>>, <<"e_shoff", 32, 4>>,
       <<"e_flags", 36, 4>>, <<"e_shsize", 40, 2>>, <<"e_phentsize", 42, 2>>,
       <<"e_phnum", 44, 2>>, <<"e_shentsize", 46, 2>>, <<"e_shnum", 48, 2>>,
       <<"e_shstrndx", 50, 2>> >>

FieldNames == {Fields[i][1] : i \in DOMAIN Fields}

ByteSamples == {0, 2, 128, 255}

FieldBytes(n) ==
    IF n = 2 THEN {<<x, y>> : x \in ByteSamples, y \in ByteSamples}
    ELSE {<<x, y, z, w>> : x \in ByteSamples, y \in ByteSamples,
                           z \in ByteSamples, w \in ByteSamples}

\* b with the bytes at offsets off .. off+Len(bytes)-1 replaced
Overwrite(b, off, bytes) ==
    [i \in 1..Len(b) |->
        IF i > off /\ i <= off + Len(bytes) THEN bytes[i - off] ELSE b[i]]

\* bytes 0x10..0x35 before one field is overwritten: byte k = k, or all zero
BaseBody(asc) == [i \in 1..38 |-> IF asc THEN i + 15 ELSE 0]

HeaderInputsLittle ==
    {Overwrite(MkIdent(127, 69, 76, 70, c, EI_DATA_LITTLE, 1, 0, 0, 0)
                   \o BaseBody(asc), Fields[i][2], fb) :
        c \in {EI_CLASS_32, EI_CLASS_64}, asc \in BOOLEAN,
        <<i, fb>> \in UNION {{<<j, x>> : x \in FieldBytes(Fields[j][3])} :
                              j \in DOMAIN Fields}}

Reverse(s) == [i \in 1..Len(s) |-> s[Len(s) + 1 - i]]

RECURSIVE SwapFields(_, _)
SwapFields(b, i) ==
    IF i = 0 THEN b
    ELSE LET off == Fields[i][2]
             n == Fields[i][3]
         IN  SwapFields(Overwrite(b, off, Reverse(Slice(b, off, off + n))), i - 1)

\* the big-endian equivalent of a little-endian buffer
Swapped(b) == SwapFields(Overwrite(b, 5, <<EI_DATA_BIG>>), Len(Fields))

(***************************************************************************)
(* Applying the pure functions                                             *)
(***************************************************************************)
ReadIdle ==
    /\ file = <<>> /\ pos = 0 /\ op = "none" /\ pc = "idle" /\ buf = <<>>
    /\ ident = None /\ ret = None /\ cause = "none" /\ fault = FALSE
    /\ start = 0 /\ trace = <<>> /\ prev = None /\ seen = {}

InitIdent ==
    /\ ReadIdle
    /\ arg \in {<<b>> : b \in IdentInputs}
    /\ res = <<>>

ApplyParseIdent ==
    /\ Len(res) = 0
    /\ res' = <<parse_elf_ident(arg[1])>>
    /\ UNCHANGED <<arg, readVars>>

ApplyCheckIdent ==
    /\ Len(res) = 1
    /\ res' = Append(res, check_elf_ident(res[1]))
    /\ UNCHANGED <<arg, readVars>>

NextIdent == ApplyParseIdent \/ ApplyCheckIdent

SpecIdent == InitIdent /\ [][NextIdent]_vars

InitHeader ==
    /\ ReadIdle
    /\ arg \in {<<b, Swapped(b)>> : b \in HeaderInputsLittle}
    /\ res = <<>>

ApplyParseHeader ==
    /\ Len(res) < Len(arg)
    /\ res' = Append(res, parse_elf_header(arg[Len(res) + 1]))
    /\ UNCHANGED <<arg, readVars>>

NextHeader == ApplyParseHeader

SpecHeader == InitHeader /\ [][NextHeader]_vars

(***************************************************************************)
(* The byte source: a File with a cursor.  seek(SeekFrom::Start(0)) and    *)
(* read_exact may fail with an I/O error of the device; read_exact also    *)
(* fails when fewer bytes than asked remain after the cursor.              *)
(***************************************************************************)
MaxExtra == 1
MaxPast == 1

\* idents of the sources: every combination of a right or wrong first magic
\* byte, a class and a data encoding, and three OS/ABI codes
ReadIdents ==
    {MkIdent(m0, 69, 76, 70, c, d, 1, 0, 0, 1) :
        m0 \in Mag0, c \in 1..MaxClass, d \in 1..MaxData}
    \cup {MkIdent(127, 69, 76, 70, EI_CLASS_32, EI_DATA_BIG, 1, o, 0, 0) :
        o \in {3, 5, 17}}

FileLengths ==
    {0, IDENT_SIZE - 1, IDENT_SIZE, HEADER_SIZE - 1}
        \cup (HEADER_SIZE .. HEADER_SIZE + MaxExtra)

\* an ident, the bytes 0x10..0x35 (byte k = k), then bytes past the header
FullFile(id) == id \o BaseBody(TRUE) \o [i \in 1..MaxExtra |-> 200 + i]

Files == {SubSeq(FullFile(id), 1, n) : id \in ReadIdents, n \in FileLengths}

\* cursor positions the caller may leave the source at
SeekTargets(f) == {0, 1, IDENT_SIZE} \cup (Len(f) .. Len(f) + MaxPast)

Available(n) == pos + n <= Len(file)

\* what read_exact leaves in an n-byte zeroed buffer
Filled(n) == [i \in 1..n |-> IF pos + i <= Len(file) THEN file[pos + i] ELSE 0]

Zeroed(n) == [i \in 1..n |-> 0]

Log(step, ok) == Append(trace, [step |-> step, ok |-> ok])

\* the call returns `value` to the caller
Return(value, kind) ==
    /\ ret' = value
    /\ cause' = kind
    /\ pc' = "done"
    /\ seen' = IF value = None THEN seen \cup {kind} ELSE seen

Continue(next) ==
    /\ pc' = next
    /\ UNCHANGED <<ret, cause, seen>>

(***************************************************************************)
(* The caller                                                              *)
(***************************************************************************)
Init ==
    /\ file \in Files
    /\ pos = 0 /\ op = "none" /\ pc = "idle" /\ buf = <<>>
    /\ ident = None /\ ret = None /\ cause = "none" /\ fault = FALSE
    /\ start = 0 /\ trace = <<>> /\ prev = None /\ seen = {}
    /\ arg = <<>> /\ res = <<>>

Open ==
    /\ pc = "idle"
    /\ \E f \in Files \ {file} : file' = f
    /\ pos' = 0
    /\ prev' = None
    /\ UNCHANGED <<op, pc, buf, ident, ret, cause, fault, start, trace, seen,
                   pureVars>>

Seek ==
    /\ pc = "idle"
    /\ \E p \in SeekTargets(file) \ {pos} : pos' = p
    /\ UNCHANGED <<file, op, pc, buf, ident, ret, cause, fault, start, trace,
                   prev, seen, pureVars>>

CallReadIdent ==
    /\ pc = "idle"
    /\ op' = "read_elf_ident"
    /\ pc' = "ident_seek"
    /\ buf' = Zeroed(IDENT_SIZE)
    /\ start' = pos
    /\ UNCHANGED <<file, pos, ident, ret, cause, fault, trace, prev, seen,
                   pureVars>>

CallReadHeader ==
    /\ pc = "idle"
    /\ op' = "read_elf_header"
    /\ pc' = "ident_seek"
    /\ buf' = Zeroed(IDENT_SIZE)
    /\ start' = pos
    /\ UNCHANGED <<file, pos, ident, ret, cause, fault, trace, prev, seen,
                   pureVars>>

\* the caller takes the returned value
Finish ==
    /\ pc = "done"
    /\ prev' = Some([op |-> op, ret |-> ret, fault |-> fault])
    /\ op' = "none" /\ pc' = "idle" /\ buf' = <<>>
    /\ ident' = None /\ ret' = None /\ cause' = "none" /\ fault' = FALSE
    /\ start' = 0 /\ trace' = <<>>
    /\ UNCHANGED <<file, pos, seen, pureVars>>

(***************************************************************************)
(* elf_ident.rs: read_elf_ident                                            *)
(***************************************************************************)
IdentSeek_skipped ==
    /\ pc = "ident_seek"
    /\ \E ok \in BOOLEAN :
        /\ trace' = Log("seek", ok)
        /\ fault' = (fault \/ ~ok)
        /\ pos' = pos
        /\ IF ok THEN Continue("ident_read") ELSE Return(None, "ReadFailure")
    /\ UNCHANGED <<file, op, buf, ident, start, prev, pureVars>>

IdentSeek ==
    /\ pc = "ident_seek"
    /\ \E ok \in BOOLEAN :
        /\ trace' = Log("seek", ok)
        /\ fault' = (fault \/ ~ok)
        /\ pos' = IF ok THEN 0 ELSE pos
        /\ IF ok THEN Continue("ident_read") ELSE Return(None, "ReadFailure")
    /\ UNCHANGED <<file, op, buf, ident, start, prev, pureVars>>

IdentRead_retry ==
    /\ pc = "ident_read"
    /\ \E dev \in BOOLEAN :
        LET ok == dev /\ Available(IDENT_SIZE) IN
        /\ trace' = Log("read_ident", ok)
        /\ fault' = (fault \/ ~dev)
        /\ buf' = IF dev THEN Filled(IDENT_SIZE) ELSE buf
        /\ pos' = IF ~dev THEN pos
                  ELSE IF ok THEN pos + IDENT_SIZE
                  ELSE IF pos < Len(file) THEN Len(file) ELSE pos
        /\ IF ok THEN Continue("ident_check")
           ELSE IF ~dev /\ Len(trace) < 3 THEN Continue("ident_read")
           ELSE Return(None, "ReadFailure")
    /\ UNCHANGED <<file, op, ident, start, prev, pureVars>>

IdentRead ==
    /\ pc = "ident_read"
    /\ \E dev \in BOOLEAN :
        LET ok == dev /\ Available(IDENT_SIZE) IN
        /\ trace' = Log("read_ident", ok)
        /\ fault' = (fault \/ ~dev)
        /\ buf' = IF dev THEN Filled(IDENT_SIZE) ELSE buf
        /\ pos' = IF ~dev THEN pos
                  ELSE IF ok THEN pos + IDENT_SIZE
                  ELSE IF pos < Len(file) THEN Len(file) ELSE pos
        /\ IF ok THEN Continue("ident_check") ELSE Return(None, "ReadFailure")
    /\ UNCHANGED <<file, op, ident, start, prev, pureVars>>

\* parse_elf_ident, check_elf_ident and the return of read_elf_ident; inside
\* read_elf_header the returned Option is matched (None => return None)
IdentCheck ==
    /\ pc = "ident_check"
    /\ LET id == parse_elf_ident(buf)
           ok == check_elf_ident(id)
       IN  /\ trace' = Log("check_ident", ok)
           /\ ident' = IF ok THEN Some(id) ELSE None
           /\ IF ~ok THEN Return(None, "StructuralInvalid")
              ELSE IF op = "read_elf_ident" THEN Return(Some(id), "ok")
              ELSE Continue("check_class")
    /\ UNCHANGED <<file, pos, op, buf, fault, start, prev, pureVars>>

(***************************************************************************)
(* elf_header_32.rs: read_elf_header                                       *)
(***************************************************************************)
ClassCheck_any_class ==
    /\ pc = "check_class"
    /\ trace' = Log("check_class", TRUE)
    /\ buf' = Zeroed(HEADER_SIZE)
    /\ Continue("header_seek")
    /\ UNCHANGED <<file, pos, op, ident, fault, start, prev, pureVars>>

ClassCheck ==
    /\ pc = "check_class"
    /\ LET ok == ident.val.ei_class = EI_CLASS_32
       IN  /\ trace' = Log("check_class", ok)
           /\ buf' = IF ok THEN Zeroed(HEADER_SIZE) ELSE buf
           /\ IF ok THEN Continue("header_seek")
              ELSE Return(None, "UnsupportedClass")
    /\ UNCHANGED <<file, pos, op, ident, fault, start, prev, pureVars>>

HeaderSeek ==
    /\ pc = "header_seek"
    /\ \E ok \in BOOLEAN :
        /\ trace' = Log("seek", ok)
        /\ fault' = (fault \/ ~ok)
        /\ pos' = IF ok THEN 0 ELSE pos
        /\ IF ok THEN Continue("header_read") ELSE Return(None, "ReadFailure")
    /\ UNCHANGED <<file, op, buf, ident, start, prev, pureVars>>

HeaderRead_partial ==
    /\ pc = "header_read"
    /\ \E dev \in BOOLEAN :
        /\ trace' = Log("read_header", dev)
        /\ fault' = (fault \/ ~dev)
        /\ buf' = IF dev THEN Filled(HEADER_SIZE) ELSE buf
        /\ pos' = IF ~dev THEN pos
                  ELSE IF Available(HEADER_SIZE) THEN pos + HEADER_SIZE
                  ELSE IF pos < Len(file) THEN Len(file) ELSE pos
        /\ IF dev THEN Continue("header_parse") ELSE Return(None, "ReadFailure")
    /\ UNCHANGED <<file, op, ident, start, prev, pureVars>>

HeaderRead ==
    /\ pc = "header_read"
    /\ \E dev \in BOOLEAN :
        LET ok == dev /\ Available(HEADER_SIZE) IN
        /\ trace' = Log("read_header", ok)
        /\ fault' = (fault \/ ~dev)
        /\ buf' = IF dev THEN Filled(HEADER_SIZE) ELSE buf
        /\ pos' = IF ~dev THEN pos
                  ELSE IF ok THEN pos + HEADER_SIZE
                  ELSE IF pos < Len(file) THEN Len(file) ELSE pos
        /\ IF ok THEN Continue("header_parse") ELSE Return(None, "ReadFailure")
    /\ UNCHANGED <<file, op, ident, start, prev, pureVars>>

HeaderParse ==
    /\ pc = "header_parse"
    /\ trace' = Log("parse_header", TRUE)
    /\ Return(Some(parse_elf_header(buf)), "ok")
    /\ UNCHANGED <<file, pos, op, buf, ident, fault, start, prev, pureVars>>

Step ==
    \/ IdentSeek \/ IdentRead \/ IdentCheck
    \/ ClassCheck \/ HeaderSeek \/ HeaderRead \/ HeaderParse

Next ==
    \/ Open \/ Seek \/ CallReadIdent \/ CallReadHeader \/ Finish
    \/ IdentSeek \/ IdentRead \/ IdentCheck
    \/ ClassCheck \/ HeaderSeek \/ HeaderRead \/ HeaderParse

Spec == Init /\ [][Next]_vars

\* a call, once entered, runs to its return: the code is synchronous
FairSpec == Spec /\ WF_vars(Step)

(***************************************************************************)
(* Claims about the pure functions                                         *)
(***************************************************************************)
\* the validity rule of the ident block, stated on the 16 input bytes
ValidIdentBytes(b) ==
    /\ Slice(b, 0, 4) = <<127, 69, 76, 70>>
    /\ b[5] \in {1, 2}
    /\ b[6] \in {1, 2}
    /\ b[8] \in (0..4) \cup (6..17)

\* C1: check_elf_ident(parse_elf_ident(b)) is TRUE exactly when bytes 0..3 are
\* 7f 45 4c 46, the class byte is 1 or 2, the data byte is 1 or 2 and the
\* OS/ABI byte is in 0..4 or 6..17; no other byte matters.
C1_ValidateIff ==
    Len(res) = 2 => (res[2] = TRUE <=> ValidIdentBytes(arg[1]))

C1_Witness ==
    /\ Len(res) = 2 /\ res[2] = TRUE
    /\ arg[1][8] = 17 /\ arg[1][7] = 1 /\ arg[1][9] = 1 /\ arg[1][10] = 1

C6_ByteOrderConsistent ==
    Len(res) = 2 => \A k \in FieldNames : res[1][k] = res[2][k]

C6_Witness ==
    /\ Len(res) = 2
    /\ Slice(arg[1], 16, 18) = <<2, 0>> /\ arg[1][6] = EI_DATA_LITTLE
    /\ Slice(arg[2], 16, 18) = <<0, 2>> /\ arg[2][6] = EI_DATA_BIG
    /\ res[1].e_type = 2 /\ res[2].e_type = 2
    /\ res[2].e_entry = [hi |-> 256 * 27 + 26, lo |-> 256 * 25 + 24]

(***************************************************************************)
(* Claims about the read functions                                         *)
(***************************************************************************)
FailureKinds == {"ReadFailure", "StructuralInvalid", "UnsupportedClass"}

HasIdent(f) == Len(f) >= IDENT_SIZE

FileIdentValid == HasIdent(file) /\ ValidIdentBytes(Slice(file, 0, IDENT_SIZE))

Returned(f) == pc = "done" /\ op = f

\* C2: a record returned by read_elf_ident comes from a valid ident at the
\* start of the source; a source without one gets None.
C2_ReadIdentValid ==
    Returned("read_elf_ident") =>
        /\ ret.some =>
            /\ FileIdentValid
            /\ ret.val.ei_mag0 = 127 /\ ret.val.ei_mag1 = 69
            /\ ret.val.ei_mag2 = 76 /\ ret.val.ei_mag3 = 70
            /\ ret.val.ei_class \in {1, 2} /\ ret.val.ei_data \in {1, 2}
            /\ ret.val.ei_osabi \in (0..4) \cup (6..17)
        /\ ~FileIdentValid => ret = None

C2_Witness ==
    /\ Returned("read_elf_ident") /\ ret.some
    /\ start > 0 /\ "StructuralInvalid" \in seen

\* C3: read_elf_header on a source shorter than 54 bytes returns None and
\* never reaches the decoding of a header, whatever the cursor was.
C3_ShortSourceFails ==
    (op = "read_elf_header" /\ Len(file) < HEADER_SIZE) =>
        ret = None /\ pc # "header_parse"

C3_Witness ==
    /\ Returned("read_elf_header") /\ Len(file) = HEADER_SIZE - 1
    /\ FileIdentValid /\ ~fault /\ start > Len(file)
    /\ ret = None /\ cause = "ReadFailure" /\ Len(trace) = 6

\* C4: read_elf_header on a source whose class byte (offset 4) is 2 returns
\* None and never reads or decodes the 54-byte header.
C4_Class64Fails ==
    (op = "read_elf_header" /\ Len(file) > 4 /\ file[5] = EI_CLASS_64) =>
        ret = None /\ pc \notin {"header_seek", "header_read", "header_parse"}

C4_Witness ==
    /\ Returned("read_elf_header") /\ Len(file) >= HEADER_SIZE
    /\ file[5] = EI_CLASS_64 /\ FileIdentValid /\ ~fault
    /\ ret = None /\ cause = "UnsupportedClass"

\* C5 as claimed: the caller can tell the failure kinds apart, so no two
\* different kinds ever reach the caller as the same value (seen holds the
\* kinds that were returned as None).
C5_KindsDistinguishable == \A k1, k2 \in seen : k1 = k2

\* C5 amended: every failure is returned as the one value None and every
\* success as Some; the three kinds are separate return points (an invalid
\* ident ends at validation, a valid class-64 ident at the class check of
\* read_elf_header, a read failure at a seek or read) that the returned
\* value does not tell apart.
C5_FailuresReturnNone ==
    pc = "done" =>
        /\ ret = None <=> cause \in FailureKinds
        /\ ret.some <=> cause = "ok"
        /\ cause = "StructuralInvalid" => HasIdent(file) /\ ~FileIdentValid
        /\ cause = "UnsupportedClass" =>
            op = "read_elf_header" /\ FileIdentValid /\ file[5] = EI_CLASS_64
        /\ cause = "ReadFailure" => fault \/ Len(file) < HEADER_SIZE
        /\ (~fault /\ FileIdentValid /\ file[5] = EI_CLASS_64) =>
            IF op = "read_elf_header" THEN cause = "UnsupportedClass"
            ELSE cause = "ok"

C5_Witness ==
    /\ pc = "done" /\ ret = None /\ cause = "UnsupportedClass"
    /\ seen = FailureKinds

\* C7: on an unchanged source, in calls the device did not fail, a read
\* function returns the same value as the call of it before, whatever the
\* cursor position the call started from.
C7_CursorIndependent ==
    (/\ pc = "done" /\ prev.some /\ prev.val.op = op
     /\ ~fault /\ ~prev.val.fault) => ret = prev.val.ret

C7_Witness ==
    /\ Returned("read_elf_header") /\ prev.some /\ prev.val.op = op
    /\ ~fault /\ ~prev.val.fault
    /\ start > Len(file) /\ ret.some

Canonical ==
    <<"seek", "read_ident", "check_ident", "check_class", "seek",
      "read_header", "parse_header">>

StepsOf(t) == [i \in 1..Len(t) |-> t[i].step]

C9_Order ==
    /\ Len(trace) <= Len(Canonical)
    /\ StepsOf(trace) = SubSeq(Canonical, 1, Len(trace))
    /\ op = "read_elf_ident" => Len(trace) <= 3
    /\ \A i \in 1..(Len(trace) - 1) : trace[i].ok
    /\ (Len(trace) > 0 /\ ~trace[Len(trace)].ok) => pc = "done" /\ ret = None
    /\ pc \in {"header_read", "header_parse"} =>
        /\ ident.some /\ ident.val.ei_class = EI_CLASS_32
        /\ FileIdentValid
    /\ Returned("read_elf_header") =>
        /\ ret.some <=> (Len(trace) = 7 /\ trace[7].ok)
        /\ ret = None <=> ~trace[Len(trace)].ok
        /\ ret.some \/ cause \in FailureKinds
    /\ pc \notin {"idle", "done"} => ret = None /\ cause = "none"

\* C9: a call executes a prefix of seek, read 16, validate, class check,
\* seek, read 54, decode, each step once; a failed step is the last one and
\* returns None; the 54-byte read and the decoding come only after a valid
\* ident of class 32; and every call reaches its return, with a record or
\* a failure.
C9_OrderAndTermination ==
    /\ []C9_Order
    /\ (pc = "ident_seek") ~> (pc = "done")

C9_Witness ==
    /\ Returned("read_elf_header") /\ ret.some
    /\ StepsOf(trace) = Canonical /\ start > 0

\* C10: the ident embedded in a returned header equals the ident the
\* read_elf_ident step validated; it is valid, of class 32, and its encoding
\* is little or big endian, so the integer fields were decoded.
C10_EmbeddedIdentAgrees ==
    (Returned("read_elf_header") /\ ret.some) =>
        /\ ident.some /\ ret.val.e_ident = ident.val
        /\ FileIdentValid
        /\ ret.val.e_ident = parse_elf_ident(Slice(file, 0, IDENT_SIZE))
        /\ ret.val.e_ident.ei_class = EI_CLASS_32
        /\ ret.val.e_ident.ei_data \in {EI_DATA_LITTLE, EI_DATA_BIG}

C10_Witness ==
    /\ Returned("read_elf_header") /\ ret.some
    /\ ret.val.e_ident.ei_data = EI_DATA_BIG
    /\ ret.val.e_type = 256 * 16 + 17
    /\ ret.val.e_ident.ei_osabi = 3

====
